---- MODULE Spec2Model ----
(***************************************************************************)
(* A model of the in-memory block file system of hh.c: the inode table,   *)
(* the block pool and the operations fs_create_file, fs_write, fs_read,   *)
(* fs_delete and fs_list_files.                                           *)
(*                                                                         *)
(* The capacities of the store (BLOCK_SIZE, MAX_FILE_SIZE, MAX_FILES) are *)
(* scaled down; the source sets them to 64, 1024 and 256 (hh.c:8-10).     *)
(* MAX_BLOCKS and total_blocks are derived from them as in the source.    *)
(* TLC's integers are 32 bits wide, so the widths of uint32_t/int         *)
(* (WORD_BITS) and of size_t (SIZE_BITS) are scaled down too, keeping     *)
(* size_t wider than uint32_t, as on an LP64 build.                       *)
(***************************************************************************)
EXTENDS Integers, Sequences, FiniteSets, TLC

\* ------------------------------------------------------------ constants
MAX_FILENAME == 32
MAX_FILES == 2
MAX_FILE_SIZE == 6
BLOCK_SIZE == 2
MAX_BLOCKS == MAX_FILE_SIZE \div BLOCK_SIZE

\* scaled widths: uint32_t and int have WORD_BITS bits, size_t SIZE_BITS
WORD_BITS == 5
SIZE_BITS == 7
U32 == 2 ^ WORD_BITS
SIZE_T == 2 ^ SIZE_BITS
U8 == 2 ^ 8

\* (int) x, for x a value of an unsigned type: two's complement
ToInt(x) ==
  LET v == x % U32 IN IF v >= U32 \div 2 THEN v - U32 ELSE v

\* ------------------------------------------------------------ inputs
MaxTime == 1
NumPatterns == 2

\* file names are C strings: sequences of non-zero characters
NameEmpty == << >>
NameA == << 97 >>
NameB == << 98 >>
NameC == << 99 >>
NameMaxLen == [i \in 1..(MAX_FILENAME - 1) |-> 120]
NameTooLong == [i \in 1..MAX_FILENAME |-> 120]
FileNames == {NameEmpty, NameA, NameB, NameC, NameMaxLen, NameTooLong}
OneName == {NameA}
TwoNames == {NameA, NameB}

\* the data of a write: a pattern p and a length; byte off of pattern p
NullData == 0
Patterns == 1..NumPatterns
DataByte(p, off) == 10 * p + (off % 10)

\* lengths past MAX_FILE_SIZE that wrap in the fixed-width arithmetic
HugeSizes == {U32 * BLOCK_SIZE, U32 * BLOCK_SIZE + 1, SIZE_T - 1}
WriteSizes == (0..(MAX_FILE_SIZE + 1)) \cup HugeSizes
WriteInputs == (Patterns \X WriteSizes) \cup {<<NullData, 1>>}
ReadSizes == 0..(MAX_FILE_SIZE + 1)

\* the smaller input sets of the two-file and of the name specifications
PoolInputs == {<<1, 1>>, <<NumPatterns, MAX_FILE_SIZE - 1>>}
PoolReads == {1, MAX_FILE_SIZE}
NameInputs == {<<1, 1>>}
FitInputs == {<<1, 1>>, <<NumPatterns, BLOCK_SIZE + 1>>}
NameReads == {1}

\* the caller's output buffer and the memory that follows it
BufLen == MAX_BLOCKS * BLOCK_SIZE
Untouched == 0 - 1
EmptyBuf == [k \in 0..(BufLen - 1) |-> Untouched]

\* ------------------------------------------------------------ state
VARIABLES fs, now, last, scen

vars == <<fs, now, last, scen>>

total_blocks == MAX_FILE_SIZE \div BLOCK_SIZE
total_inodes == MAX_FILES

Min(S) == CHOOSE x \in S : \A y \in S : x <= y

ZeroInode ==
  [name |-> [k \in 1..MAX_FILENAME |-> 0],
   size |-> 0,
   blocks |-> [k \in 0..(MAX_BLOCKS - 1) |-> 0],
   num_blocks |-> 0,
   created |-> 0,
   modified |-> 0,
   is_directory |-> 0]

fs_create ==
  [total_blocks |-> total_blocks,
   free_blocks |-> total_blocks,
   total_inodes |-> total_inodes,
   free_inodes |-> MAX_FILES,
   blocks |-> [b \in 0..(total_blocks - 1) |-> [k \in 0..(BLOCK_SIZE - 1) |-> 0]],
   inodes |-> [i \in 0..(MAX_FILES - 1) |-> ZeroInode],
   block_map |-> [b \in 0..(total_blocks - 1) |-> 0],
   inode_map |-> [i \in 0..(MAX_FILES - 1) |-> 0]]

\* ------------------------------------------------------------ strings
\* the C string held in a char array: the characters before the first NUL
CStr(arr) ==
  LET nul == {k \in 1..Len(arr) : arr[k] = 0}
  IN IF nul = {} THEN arr ELSE SubSeq(arr, 1, Min(nul) - 1)

strlen(s) == Len(s)

\* strncpy(dst, src, n): n characters, NUL padded; dst[n..] is left alone
strncpy(dst, src, n) ==
  [k \in 1..Len(dst) |->
     IF k <= n THEN (IF k <= Len(src) THEN src[k] ELSE 0) ELSE dst[k]]

\* ------------------------------------------------------------ allocators
\* find_free_inode scanning from the highest index down
find_free_inode_last(f) ==
  LET free == {i \in 0..(f.total_inodes - 1) : f.inode_map[i] = 0}
  IN IF free = {}
     THEN [fs |-> f, ret |-> -1]
     ELSE LET i == CHOOSE x \in free : \A y \in free : y <= x
          IN [fs |-> [f EXCEPT !.inode_map[i] = 1,
                               !.free_inodes = (@ - 1) % U32],
              ret |-> i]

find_free_inode(f) ==
  LET free == {i \in 0..(f.total_inodes - 1) : f.inode_map[i] = 0}
  IN IF free = {}
     THEN [fs |-> f, ret |-> -1]
     ELSE LET i == Min(free)
          IN [fs |-> [f EXCEPT !.inode_map[i] = 1,
                               !.free_inodes = (@ - 1) % U32],
              ret |-> i]

\* find_free_block without the free_blocks-- of line 105
find_free_block_nodec(f) ==
  LET free == {i \in 0..(f.total_blocks - 1) : f.block_map[i] = 0}
  IN IF free = {}
     THEN [fs |-> f, ret |-> -1]
     ELSE [fs |-> [f EXCEPT !.block_map[Min(free)] = 1], ret |-> Min(free)]

\* find_free_block scanning from the top of the map
find_free_block_last(f) ==
  LET free == {i \in 0..(f.total_blocks - 1) : f.block_map[i] = 0}
  IN IF free = {}
     THEN [fs |-> f, ret |-> -1]
     ELSE LET i == CHOOSE x \in free : \A y \in free : y <= x
          IN [fs |-> [f EXCEPT !.block_map[i] = 1,
                               !.free_blocks = (@ - 1) % U32],
              ret |-> i]

find_free_block(f) ==
  LET free == {i \in 0..(f.total_blocks - 1) : f.block_map[i] = 0}
  IN IF free = {}
     THEN [fs |-> f, ret |-> -1]
     ELSE LET i == Min(free)
          IN [fs |-> [f EXCEPT !.block_map[i] = 1,
                               !.free_blocks = (@ - 1) % U32],
              ret |-> i]

\* the lookup loop of fs_write, fs_read and fs_delete: first live match
FindFile(f, filename) ==
  LET hit == {i \in 0..(f.total_inodes - 1) :
                f.inode_map[i] # 0 /\ CStr(f.inodes[i].name) = filename}
  IN IF hit = {} THEN -1 ELSE Min(hit)

\* ------------------------------------------------------------ create
\* fs_create_file copying one character too few: strncpy(.., MAX_FILENAME - 2)
fs_create_file_shortcopy(f, filename, t) ==
  IF strlen(filename) >= MAX_FILENAME
  THEN [fs |-> f, ret |-> -1]
  ELSE IF \E i \in 0..(f.total_inodes - 1) :
            f.inode_map[i] # 0 /\ CStr(f.inodes[i].name) = filename
  THEN [fs |-> f, ret |-> -1]
  ELSE LET r == find_free_inode(f)
       IN IF r.ret < 0
          THEN [fs |-> r.fs, ret |-> -1]
          ELSE [fs |-> [r.fs EXCEPT !.inodes[r.ret] =
                          [@ EXCEPT !.name = strncpy(@, filename, MAX_FILENAME - 2),
                                    !.size = 0,
                                    !.num_blocks = 0,
                                    !.created = t,
                                    !.modified = t,
                                    !.is_directory = 0]],
                ret |-> r.ret]

\* fs_create_file without the scan for a live inode of the same name
fs_create_file_nodupcheck(f, filename, t) ==
  IF strlen(filename) >= MAX_FILENAME
  THEN [fs |-> f, ret |-> -1]
  ELSE LET r == find_free_inode(f)
       IN IF r.ret < 0
          THEN [fs |-> r.fs, ret |-> -1]
          ELSE [fs |-> [r.fs EXCEPT !.inodes[r.ret] =
                          [@ EXCEPT !.name = strncpy(@, filename, MAX_FILENAME - 1),
                                    !.size = 0,
                                    !.num_blocks = 0,
                                    !.created = t,
                                    !.modified = t,
                                    !.is_directory = 0]],
                ret |-> r.ret]

fs_create_file(f, filename, t) ==
  IF strlen(filename) >= MAX_FILENAME
  THEN [fs |-> f, ret |-> -1]
  ELSE IF \E i \in 0..(f.total_inodes - 1) :
            f.inode_map[i] # 0 /\ CStr(f.inodes[i].name) = filename
  THEN [fs |-> f, ret |-> -1]
  ELSE LET r == find_free_inode(f)
       IN IF r.ret < 0
          THEN [fs |-> r.fs, ret |-> -1]
          ELSE [fs |-> [r.fs EXCEPT !.inodes[r.ret] =
                          [@ EXCEPT !.name = strncpy(@, filename, MAX_FILENAME - 1),
                                    !.size = 0,
                                    !.num_blocks = 0,
                                    !.created = t,
                                    !.modified = t,
                                    !.is_directory = 0]],
                ret |-> r.ret]

\* ------------------------------------------------------------ write
\* for (i = 0; i < inode->num_blocks; i++) { block_map[blocks[i]] = 0; free_blocks++; }
\* the release loop clearing block_map[i] in place of block_map[blocks[i]]
RECURSIVE ReleaseLoop_byindex(_, _, _)
ReleaseLoop_byindex(f, ino, i) ==
  IF i >= f.inodes[ino].num_blocks
  THEN f
  ELSE ReleaseLoop_byindex([f EXCEPT !.block_map[i] = 0,
                                     !.free_blocks = (@ + 1) % U32],
                           ino, i + 1)

RECURSIVE ReleaseLoop(_, _, _)
ReleaseLoop(f, ino, i) ==
  IF i >= f.inodes[ino].num_blocks
  THEN f
  ELSE ReleaseLoop([f EXCEPT !.block_map[f.inodes[ino].blocks[i]] = 0,
                             !.free_blocks = (@ + 1) % U32],
                   ino, i + 1)

\* memcpy(dst, data + off, cnt) into a block
memcpy_in(dst, pat, off, cnt) ==
  [k \in DOMAIN dst |-> IF k < cnt THEN DataByte(pat, off + k) ELSE dst[k]]

\* the allocation loop copying into pool block i in place of block_num
RECURSIVE AllocLoop_wrongblock(_, _, _, _, _, _)
AllocLoop_wrongblock(f, ino, i, needed_blocks, pat, size) ==
  IF i >= needed_blocks
  THEN [fs |-> f, ok |-> TRUE]
  ELSE LET r == find_free_block(f)
       IN IF r.ret < 0
          THEN [fs |-> r.fs, ok |-> FALSE]
          ELSE LET cnt == IF i = needed_blocks - 1
                          THEN size % BLOCK_SIZE
                          ELSE BLOCK_SIZE
                   g == [r.fs EXCEPT
                           !.inodes[ino].blocks[i] = r.ret,
                           !.blocks[i] = memcpy_in(@, pat, i * BLOCK_SIZE, cnt)]
               IN AllocLoop_wrongblock(g, ino, i + 1, needed_blocks, pat, size)

\* the allocation loop of fs_write; ok is FALSE when find_free_block fails
RECURSIVE AllocLoop(_, _, _, _, _, _)
AllocLoop(f, ino, i, needed_blocks, pat, size) ==
  IF i >= needed_blocks
  THEN [fs |-> f, ok |-> TRUE]
  ELSE LET r == find_free_block(f)
       IN IF r.ret < 0
          THEN [fs |-> r.fs, ok |-> FALSE]
          ELSE LET cnt == IF i = needed_blocks - 1
                          THEN size % BLOCK_SIZE
                          ELSE BLOCK_SIZE
                   g == [r.fs EXCEPT
                           !.inodes[ino].blocks[i] = r.ret,
                           !.blocks[r.ret] = memcpy_in(@, pat, i * BLOCK_SIZE, cnt)]
               IN AllocLoop(g, ino, i + 1, needed_blocks, pat, size)

NeededBlocks(size) ==
  (((size + BLOCK_SIZE - 1) % SIZE_T) \div BLOCK_SIZE) % U32

\* a write that gives back what it allocated when the pool runs out
fs_write_rollback(f, filename, pat, size, t) ==
  IF pat = NullData \/ size = 0 THEN [fs |-> f, ret |-> -1]
  ELSE LET inode_num == FindFile(f, filename)
       IN IF inode_num < 0 THEN [fs |-> f, ret |-> -1]
          ELSE LET needed_blocks == NeededBlocks(size)
               IN IF needed_blocks > MAX_BLOCKS THEN [fs |-> f, ret |-> -1]
                  ELSE LET released == ReleaseLoop(f, inode_num, 0)
                           a == AllocLoop(released, inode_num, 0, needed_blocks, pat, size)
                       IN IF ~a.ok THEN [fs |-> released, ret |-> -1]
                          ELSE [fs |-> [a.fs EXCEPT !.inodes[inode_num].size = size % U32,
                                                  !.inodes[inode_num].num_blocks = needed_blocks % U8,
                                                  !.inodes[inode_num].modified = t],
                                ret |-> ToInt(size)]

fs_write(f, filename, pat, size, t) ==
  IF pat = NullData \/ size = 0
  THEN [fs |-> f, ret |-> -1]
  ELSE LET inode_num == FindFile(f, filename)
       IN IF inode_num < 0
          THEN [fs |-> f, ret |-> -1]
          ELSE LET needed_blocks == NeededBlocks(size)
               IN IF needed_blocks > MAX_BLOCKS
                  THEN [fs |-> f, ret |-> -1]
                  ELSE LET a == AllocLoop(ReleaseLoop(f, inode_num, 0),
                                          inode_num, 0, needed_blocks, pat, size)
                       IN IF ~a.ok
                          THEN [fs |-> a.fs, ret |-> -1]
                          ELSE [fs |-> [a.fs EXCEPT
                                          !.inodes[inode_num].size = size % U32,
                                          !.inodes[inode_num].num_blocks = needed_blocks % U8,
                                          !.inodes[inode_num].modified = t],
                                ret |-> ToInt(size)]

\* ------------------------------------------------------------ read
\* memcpy(buffer + off, src, cnt) out of a block
memcpy_out(buffer, off, src, cnt) ==
  [k \in DOMAIN buffer |->
     IF off <= k /\ k < off + cnt THEN src[k - off] ELSE buffer[k]]

RECURSIVE ReadLoop(_, _, _, _, _)
ReadLoop(f, inode, buffer, i, to_read) ==
  IF i >= inode.num_blocks
  THEN buffer
  ELSE LET block_read_size == IF i = inode.num_blocks - 1
                              THEN to_read % BLOCK_SIZE
                              ELSE BLOCK_SIZE
       IN ReadLoop(f, inode,
                   memcpy_out(buffer, i * BLOCK_SIZE,
                              f.blocks[inode.blocks[i]], block_read_size),
                   i + 1, to_read)

fs_read(f, filename, buffer, size) ==
  LET inode_num == FindFile(f, filename)
  IN IF inode_num < 0
     THEN [buf |-> buffer, ret |-> -1]
     ELSE LET inode == f.inodes[inode_num]
              to_read == IF size < inode.size THEN size ELSE inode.size
          IN [buf |-> ReadLoop(f, inode, buffer, 0, to_read),
              ret |-> ToInt(to_read)]

\* ------------------------------------------------------------ delete
\* fs_delete without the loop that frees the file's blocks
fs_delete_keepblocks(f, filename) ==
  LET inode_num == FindFile(f, filename)
  IN IF inode_num < 0
     THEN [fs |-> f, ret |-> -1]
     ELSE [fs |-> [f EXCEPT !.inode_map[inode_num] = 0,
                            !.free_inodes = (@ + 1) % U32,
                            !.inodes[inode_num] = ZeroInode],
           ret |-> 0]

fs_delete(f, filename) ==
  LET inode_num == FindFile(f, filename)
  IN IF inode_num < 0
     THEN [fs |-> f, ret |-> -1]
     ELSE LET g == ReleaseLoop(f, inode_num, 0)
          IN [fs |-> [g EXCEPT !.inode_map[inode_num] = 0,
                               !.free_inodes = (@ + 1) % U32,
                               !.inodes[inode_num] = ZeroInode],
              ret |-> 0]

\* ------------------------------------------------------------ list
\* the rows fs_list_files prints, in the order it prints them
fs_list_files(f) ==
  LET idx == [k \in 1..f.total_inodes |-> k - 1]
      live == SelectSeq(idx, LAMBDA i : f.inode_map[i] # 0)
  IN [k \in 1..Len(live) |->
        [inode |-> live[k],
         name |-> CStr(f.inodes[live[k]].name),
         size |-> f.inodes[live[k]].size,
         created |-> f.inodes[live[k]].created,
         modified |-> f.inodes[live[k]].modified]]

\* ------------------------------------------------------------ the caller
\* what the last call was, what it returned, and what the store held before
Result(op, name, pat, size, ret, buf, listing) ==
  LET ino == FindFile(fs, name)
  IN [op |-> op, name |-> name, pat |-> pat, size |-> size, ret |-> ret,
      buf |-> buf, listing |-> listing,
      pre_ino |-> ino,
      pre_nblk |-> IF ino < 0 THEN 0 ELSE fs.inodes[ino].num_blocks,
      pre_blocks |-> IF ino < 0 THEN << >>
                     ELSE [k \in 1..fs.inodes[ino].num_blocks |->
                             fs.inodes[ino].blocks[k - 1]],
      pre_free |-> fs.free_blocks,
      pre_finodes |-> fs.free_inodes]

\* progress through: create "a", create "b", delete "a", create "c", list
ScenOff == 0 - 1
ScenStep(s, op, name, ret) ==
  IF s = 0 /\ op = "create" /\ name = NameA /\ ret >= 0 THEN 1
  ELSE IF s = 1 /\ op = "create" /\ name = NameB /\ ret >= 0 THEN 2
  ELSE IF s = 2 /\ op = "delete" /\ name = NameA /\ ret = 0 THEN 3
  ELSE IF s = 3 /\ op = "create" /\ name = NameC /\ ret >= 0 THEN 4
  ELSE IF s = 4 /\ op = "list" THEN 4
  ELSE ScenOff

Init ==
  /\ fs = fs_create
  /\ now = 0
  /\ last = [op |-> "none", name |-> NameEmpty, pat |-> 0, size |-> 0, ret |-> 0,
             buf |-> EmptyBuf, listing |-> << >>,
             pre_ino |-> -1, pre_nblk |-> 0, pre_blocks |-> << >>,
             pre_free |-> total_blocks, pre_finodes |-> MAX_FILES]
  /\ scen = 0

Create(names) ==
  \E n \in names :
    LET r == fs_create_file(fs, n, now)
    IN /\ fs' = r.fs
       /\ last' = Result("create", n, 0, 0, r.ret, EmptyBuf, << >>)
       /\ scen' = ScenStep(scen, "create", n, r.ret)
       /\ UNCHANGED now

Write(names, inputs) ==
  \E n \in names, d \in inputs :
    LET r == fs_write(fs, n, d[1], d[2], now)
    IN /\ fs' = r.fs
       /\ last' = Result("write", n, d[1], d[2], r.ret, EmptyBuf, << >>)
       /\ scen' = ScenStep(scen, "write", n, r.ret)
       /\ UNCHANGED now

\* a read that stamps the inode it found
Read_touch(names, sizes) ==
  \E n \in names, max_size \in sizes :
    LET r == fs_read(fs, n, EmptyBuf, max_size)
        i == FindFile(fs, n)
    IN /\ fs' = IF i < 0 THEN fs ELSE [fs EXCEPT !.inodes[i].modified = now]
       /\ last' = Result("read", n, 0, max_size, r.ret, r.buf, << >>)
       /\ scen' = ScenStep(scen, "read", n, r.ret)
       /\ UNCHANGED now

Read(names, sizes) ==
  \E n \in names, max_size \in sizes :
    LET r == fs_read(fs, n, EmptyBuf, max_size)
    IN /\ last' = Result("read", n, 0, max_size, r.ret, r.buf, << >>)
       /\ scen' = ScenStep(scen, "read", n, r.ret)
       /\ UNCHANGED <<fs, now>>

Delete(names) ==
  \E n \in names :
    LET r == fs_delete(fs, n)
    IN /\ fs' = r.fs
       /\ last' = Result("delete", n, 0, 0, r.ret, EmptyBuf, << >>)
       /\ scen' = ScenStep(scen, "delete", n, r.ret)
       /\ UNCHANGED now

List ==
  /\ last' = Result("list", NameEmpty, 0, 0, 0, EmptyBuf, fs_list_files(fs))
  /\ scen' = ScenStep(scen, "list", NameEmpty, 0)
  /\ UNCHANGED <<fs, now>>

\* time(NULL) moves on between calls
Tick ==
  /\ now < MaxTime
  /\ now' = now + 1
  /\ UNCHANGED <<fs, last, scen>>

\* two files sharing the block pool
Next ==
  \/ Create(TwoNames)
  \/ Write(TwoNames, PoolInputs)
  \/ Read(TwoNames, PoolReads)
  \/ Delete(TwoNames)
  \/ List

Spec == Init /\ [][Next]_vars

\* one file, every length and every read size
NextFile ==
  \/ Create(OneName)
  \/ Write(OneName, WriteInputs)
  \/ Read(OneName, ReadSizes)
  \/ Delete(OneName)
  \/ List

SpecFile == Init /\ [][NextFile]_vars

\* every name
NextNames ==
  \/ Create(FileNames)
  \/ Write(FileNames, NameInputs)
  \/ Read(FileNames, NameReads)
  \/ Delete(FileNames)
  \/ List

SpecNames == Init /\ [][NextNames]_vars

\* two files of one and two blocks, leaving holes in the block map
NextFit ==
  \/ Create(TwoNames)
  \/ Write(TwoNames, FitInputs)
  \/ Read(TwoNames, PoolReads)
  \/ Delete(TwoNames)
  \/ List

SpecFit == Init /\ [][NextFit]_vars

\* one file, the clock running
NextClock ==
  \/ Create(OneName)
  \/ Write(OneName, PoolInputs)
  \/ Read(OneName, PoolReads)
  \/ Delete(OneName)
  \/ List
  \/ Tick

SpecClock == Init /\ [][NextClock]_vars

TypeOK ==
  /\ fs.free_blocks \in 0..(U32 - 1)
  /\ now \in 0..MaxTime

\* ------------------------------------------------------------ properties
CeilDiv(n, d) == (n + d - 1) \div d

LiveInodes(f) == {i \in 0..(f.total_inodes - 1) : f.inode_map[i] # 0}

FreeBlockSet(f) == {b \in 0..(f.total_blocks - 1) : f.block_map[b] = 0}

\* the inode of the file the last call named, as the store holds it now
Target == fs.inodes[FindFile(fs, last.name)]

\* C1: after a write of 0 < len <= MAX_FILE_SIZE bytes that succeeded, a read
\* of len bytes from the same file returns len and yields exactly the data
\* written, also when len is 1 or a multiple of BLOCK_SIZE.
C1_RoundTrip ==
  (last.op = "write" /\ last.ret >= 0 /\ last.size \in 1..MAX_FILE_SIZE) =>
    LET r == fs_read(fs, last.name, EmptyBuf, last.size)
    IN /\ r.ret = last.size
       /\ \A k \in 0..(last.size - 1) : r.buf[k] = DataByte(last.pat, k)

\* C2: free_blocks is the number of block indices whose block_map entry is 0,
\* and lies in 0..total_blocks, in every reachable state.
C2_FreeBlocksCount ==
  /\ fs.free_blocks = Cardinality(FreeBlockSet(fs))
  /\ fs.free_blocks \in 0..fs.total_blocks

\* C2 witness: a write to a live file has failed partway through allocation,
\* after releasing the file's blocks and taking every free block
C2_Witness ==
  /\ last.op = "write" /\ last.ret = -1
  /\ last.pre_ino >= 0 /\ last.pre_nblk > 0 /\ last.pre_free > 0
  /\ last.size \in 1..MAX_FILE_SIZE
  /\ fs.free_blocks = 0

\* C3: no two live inodes carry the same name.
C3_UniqueNames ==
  \A i, j \in LiveInodes(fs) :
    i # j => CStr(fs.inodes[i].name) # CStr(fs.inodes[j].name)

\* C3 witness: the name of maximal length has been created in inode 0 while
\* inode 1 is live, so inode 0 was freed by a delete and is in use again
C3_Witness ==
  /\ last.op = "create" /\ last.ret = 0 /\ last.name = NameMaxLen
  /\ fs.inode_map[1] # 0

\* C4: a read of a live file writes no buffer position at or beyond
\* to_read = min(max_size, size), and returns to_read.
C4_ReadBounded ==
  (last.op = "read" /\ last.pre_ino >= 0) =>
    LET to_read == IF last.size < Target.size THEN last.size ELSE Target.size
    IN /\ last.ret = to_read
       /\ \A k \in DOMAIN last.buf : k >= to_read => last.buf[k] = Untouched

\* C5: after a successful write to a live file that owned n_old blocks, the
\* inode has num_blocks = ceil(len/BLOCK_SIZE) and size = len, and free_blocks
\* is its value before the call plus n_old minus ceil(len/BLOCK_SIZE).
C5_WriteAccounting ==
  (last.op = "write" /\ last.ret >= 0) =>
    /\ Target.num_blocks = CeilDiv(last.size, BLOCK_SIZE)
    /\ Target.size = last.size
    /\ fs.free_blocks =
         last.pre_free + last.pre_nblk - CeilDiv(last.size, BLOCK_SIZE)

\* C5, for the lengths the arithmetic of fs_write represents without
\* truncation (0 < len <= MAX_FILE_SIZE): the same accounting
C5_InRange ==
  (last.op = "write" /\ last.ret >= 0 /\ last.size <= MAX_FILE_SIZE) =>
    /\ Target.num_blocks = CeilDiv(last.size, BLOCK_SIZE)
    /\ Target.size = last.size
    /\ fs.free_blocks =
         last.pre_free + last.pre_nblk - CeilDiv(last.size, BLOCK_SIZE)

\* C6: delete of a live file with num_blocks = n adds n to free_blocks and 1
\* to free_inodes, marks each of its n blocks free, and leaves the name
\* absent, so that a create of the name on the resulting store succeeds.
C6_DeleteReleases ==
  (last.op = "delete" /\ last.pre_ino >= 0) =>
    /\ last.ret = 0
    /\ fs.free_blocks = last.pre_free + last.pre_nblk
    /\ fs.free_inodes = last.pre_finodes + 1
    /\ \A k \in 1..Len(last.pre_blocks) : fs.block_map[last.pre_blocks[k]] = 0
    /\ FindFile(fs, last.name) = -1
    /\ fs_create_file(fs, last.name, now).ret >= 0

\* C6 witness: a file owning more than one block has been deleted
C6_Witness ==
  last.op = "delete" /\ last.ret = 0 /\ last.pre_nblk > 1

\* C7: with free_blocks = 0, a write to a live file that needs more blocks
\* than the file owns returns -1, never a byte count.
C7_NoSpace ==
  (/\ last.op = "write" /\ last.pre_ino >= 0 /\ last.pat # NullData
   /\ last.pre_free = 0
   /\ CeilDiv(last.size, BLOCK_SIZE) > last.pre_nblk) => last.ret = -1

\* C7, for 0 < len <= MAX_FILE_SIZE: the write returns -1
C7_InRange ==
  (/\ last.op = "write" /\ last.pre_ino >= 0 /\ last.pat # NullData
   /\ last.pre_free = 0 /\ last.size <= MAX_FILE_SIZE
   /\ CeilDiv(last.size, BLOCK_SIZE) > last.pre_nblk) => last.ret = -1

\* C8: create on a name that is live returns -1 and leaves the whole store
\* (inode table, block pool, both maps, both counters) unchanged, whether or
\* not a free inode remains.
C8_CreateExisting ==
  [][(last'.op = "create" /\ last'.pre_ino >= 0) =>
       (last'.ret = -1 /\ fs' = fs)]_vars

\* C8 witness: create of a live name was refused while an inode was free
C8_Witness ==
  /\ last.op = "create" /\ last.pre_ino >= 0 /\ last.ret = -1
  /\ last.pre_finodes > 0

\* C9: create fails and allocates no inode when the name is empty or has
\* MAX_FILENAME or more characters.
C9_InvalidName ==
  (last.op = "create" /\ (last.name = << >> \/ Len(last.name) >= MAX_FILENAME)) =>
    (last.ret = -1 /\ fs.free_inodes = last.pre_finodes)

\* C9, for the over-long names alone: create fails and allocates no inode
C9_TooLong ==
  (last.op = "create" /\ Len(last.name) >= MAX_FILENAME) =>
    (last.ret = -1 /\ fs.free_inodes = last.pre_finodes)

ListingNames(l) == [k \in 1..Len(l) |-> l[k].name]

\* C10 as stated: after create "a", create "b", delete "a", create "c" the
\* listing shows "b" and then "c".
C10_Original ==
  (last.op = "list" /\ scen = 4) => ListingNames(last.listing) = <<NameB, NameC>>

\* C10 as amended: a listing holds exactly the live inodes in ascending index
\* order, and after create "a", create "b", delete "a", create "c" it shows
\* "c" (inode 0, reused) and then "b" (inode 1).
C10_ListingOrder ==
  (last.op = "list") =>
    /\ \A k \in 1..(Len(last.listing) - 1) :
         last.listing[k].inode < last.listing[k + 1].inode
    /\ {last.listing[k].inode : k \in 1..Len(last.listing)} = LiveInodes(fs)
    /\ \A k \in 1..Len(last.listing) :
         last.listing[k].name = CStr(fs.inodes[last.listing[k].inode].name)
    /\ (scen = 4 => ListingNames(last.listing) = <<NameC, NameB>>)

\* C10 witness: the four calls were made on the empty store, then list
C10_Witness ==
  last.op = "list" /\ scen = 4 /\ Len(last.listing) = 2

\* the write named by the coming step passes no up-front check of the claim
FailsUpFront(l) ==
  /\ l.op = "write"
  /\ \/ l.pre_ino < 0
     \/ l.size = 0
     \/ CeilDiv(l.size, BLOCK_SIZE) > MAX_BLOCKS

\* C11: a write that fails its up-front checks (no live inode of that name,
\* empty data, or ceil(len / BLOCK_SIZE) > MAX_BLOCKS) returns -1 and leaves
\* the whole store unchanged: both maps, both counters, every inode and every
\* block's contents.
C11_UpFrontFailure ==
  [][FailsUpFront(last') => (last'.ret = -1 /\ fs' = fs)]_vars

\* C11, for lengths whose block count the 32-bit needed_blocks holds exactly
C11_InRange ==
  [][(FailsUpFront(last') /\ NeededBlocks(last'.size) = CeilDiv(last'.size, BLOCK_SIZE))
       => (last'.ret = -1 /\ fs' = fs)]_vars

\* C12: read never changes the store. After any read call, successful or
\* failing, for any name and any max_size, the inode table, the block
\* contents, both maps, both counters and every inode's size, num_blocks,
\* block list and timestamps are what they were before the call.
C12_ReadFrame ==
  [][last'.op = "read" => fs' = fs]_vars

\* a read has returned bytes of a file written at an earlier clock value
C12_Witness ==
  /\ last.op = "read" /\ last.ret > 0 /\ last.pre_ino >= 0
  /\ fs.inodes[last.pre_ino].modified < now

\* the last call was a write that passed the checks of hh.c:140-156 and needed
\* more blocks than the pool held once the file's own blocks were released
PoolExhausted(l) ==
  /\ l.op = "write" /\ l.pre_ino >= 0 /\ l.pat # NullData /\ l.size > 0
  /\ NeededBlocks(l.size) <= MAX_BLOCKS
  /\ NeededBlocks(l.size) > l.pre_free + l.pre_nblk

\* C13: when a write fails because the pool is exhausted partway through
\* allocation, the blocks the file owned before the call are left freed: at
\* return each of those old block indices is marked free in the block map.
C13_OldBlocksFreed ==
  PoolExhausted(last) =>
    /\ last.ret = -1
    /\ \A k \in 1..Len(last.pre_blocks) : fs.block_map[last.pre_blocks[k]] = 0

\* what the code leaves instead: the write returns -1 with the whole pool,
\* the file's old blocks included, marked used
C13_OldBlocksRetaken ==
  PoolExhausted(last) =>
    /\ last.ret = -1
    /\ fs.free_blocks = 0
    /\ \A b \in 0..(total_blocks - 1) : fs.block_map[b] = 1

\* C14: in every reachable state, also after a write that failed partway,
\* every index in the first num_blocks entries of a live inode's block list
\* is a valid pool index (< total_blocks) and is marked used in block_map.
C14_BlockListValid ==
  \A i \in LiveInodes(fs) :
    \A k \in 0..(fs.inodes[i].num_blocks - 1) :
      /\ fs.inodes[i].blocks[k] < fs.total_blocks
      /\ fs.block_map[fs.inodes[i].blocks[k]] = 1

\* a write ran out of blocks on a file that owned some, and the file is live
C14_Witness ==
  /\ PoolExhausted(last) /\ last.ret = -1 /\ last.pre_nblk > 0
  /\ fs.inode_map[last.pre_ino] # 0 /\ fs.inodes[last.pre_ino].num_blocks > 0

\* the blocks of inode ino, as a set
OwnedBlocks(f, ino) ==
  {f.inodes[ino].blocks[k] : k \in 0..(f.inodes[ino].num_blocks - 1)}

\* b is the j-th lowest member of S, counting from 0
IsNthLowest(S, j, b) == b \in S /\ Cardinality({c \in S : c < b}) = j

\* C15: allocation is first-fit. A successful create returns the smallest
\* inode index that was free before the call; a successful write needing k
\* blocks (needed_blocks of hh.c:155) leaves the inode's block list equal, in
\* ascending order, to the k lowest-indexed blocks that were free once the
\* file's own old blocks had been released.
C15_FirstFit ==
  [][/\ (last'.op = "create" /\ last'.ret >= 0) =>
          last'.ret = Min({i \in 0..(total_inodes - 1) : fs.inode_map[i] = 0})
     /\ (last'.op = "write" /\ last'.ret >= 0) =>
          LET ino == last'.pre_ino
              avail == FreeBlockSet(fs) \cup OwnedBlocks(fs, ino)
              k == NeededBlocks(last'.size)
          IN /\ fs'.inodes[ino].num_blocks = k
             /\ \A j \in 0..(k - 1) :
                  IsNthLowest(avail, j, fs'.inodes[ino].blocks[j])
    ]_vars

\* a write has left a file on two blocks with another file's block between
C15_Witness ==
  /\ last.op = "write" /\ last.ret > BLOCK_SIZE /\ last.pre_nblk > 0
  /\ Target.num_blocks = 2
  /\ Target.blocks[1] > Target.blocks[0] + 1

\* a live inode carries the name
Live(f, n) == FindFile(f, n) >= 0

\* the lifecycle of one name across one step
LifecycleStep(n) ==
  LET i == FindFile(fs, n)
      j == FindFile(fs', n)
  IN /\ (i < 0 /\ j >= 0) =>
          /\ last'.op = "create" /\ last'.name = n /\ last'.ret >= 0
          /\ fs'.inodes[j].size = 0 /\ fs'.inodes[j].num_blocks = 0
     /\ (i >= 0 /\ j >= 0 /\ fs'.inodes[j].size # fs.inodes[i].size) =>
          (last'.op = "write" /\ last'.name = n /\ last'.ret >= 0)
     /\ (i >= 0 /\ j >= 0 /\ fs.inodes[i].size > 0) => fs'.inodes[j].size > 0
     /\ (i >= 0 /\ j < 0) =>
          (last'.op = "delete" /\ last'.name = n /\ last'.ret = 0)

\* C16: the lifecycle of a name. It becomes live only through a successful
\* create of that name, which leaves size 0 and num_blocks 0; a live file's
\* size changes only through a successful write to that name; a live file of
\* size > 0 never returns to size 0 while it stays live; and a name becomes
\* absent only through a successful delete of that name.
C16_Lifecycle ==
  [][\A n \in FileNames : LifecycleStep(n)]_vars

\* C16, leaving aside writes whose block count needed_blocks does not hold
C16_InRange ==
  [][(last'.op = "write" =>
        NeededBlocks(last'.size) = CeilDiv(last'.size, BLOCK_SIZE))
       => \A n \in FileNames : LifecycleStep(n)]_vars

\* every live inode's size and block count are within the per-file maximum
SizesBounded ==
  \A i \in LiveInodes(fs) :
    /\ 0 <= fs.inodes[i].size /\ fs.inodes[i].size <= MAX_FILE_SIZE
    /\ fs.inodes[i].num_blocks <= MAX_BLOCKS

\* C17: for every requested length above MAX_FILE_SIZE, with size +
\* BLOCK_SIZE - 1 wrapping in size_t and the quotient truncated to the 32-bit
\* needed_blocks, write fails and changes nothing, so that in every reachable
\* state each live inode has 0 <= size <= MAX_FILE_SIZE and num_blocks <=
\* MAX_BLOCKS.
C17_TooLargeRejected ==
  /\ [][(last'.op = "write" /\ last'.size > MAX_FILE_SIZE)
          => (last'.ret = -1 /\ fs' = fs)]_vars
  /\ []SizesBounded

\* C17, for lengths above MAX_FILE_SIZE that needed_blocks holds exactly
C17_InRange ==
  [][(/\ last'.op = "write" /\ last'.size > MAX_FILE_SIZE
      /\ NeededBlocks(last'.size) = CeilDiv(last'.size, BLOCK_SIZE))
       => (last'.ret = -1 /\ fs' = fs)]_vars

\* the sum of num_blocks over the inodes in S
RECURSIVE SumNumBlocks(_, _)
SumNumBlocks(f, S) ==
  IF S = {} THEN 0
  ELSE LET i == Min(S)
       IN f.inodes[i].num_blocks + SumNumBlocks(f, S \ {i})

\* C18: no block leaks. total_blocks - free_blocks equals the sum of
\* num_blocks over all live inodes, so once every live file is deleted
\* free_blocks == total_blocks; this holds after a write that failed partway
\* as well.
C18_NoLeak ==
  /\ fs.total_blocks - fs.free_blocks = SumNumBlocks(fs, LiveInodes(fs))
  /\ LiveInodes(fs) = {} => fs.free_blocks = fs.total_blocks

\* C19: block ownership is exclusive. The first num_blocks entries of a live
\* inode's block list hold no index twice, and the block lists of two distinct
\* live inodes share no index.
C19_ExclusiveOwnership ==
  /\ \A i \in LiveInodes(fs) :
       \A k1, k2 \in 0..(fs.inodes[i].num_blocks - 1) :
         k1 # k2 => fs.inodes[i].blocks[k1] # fs.inodes[i].blocks[k2]
  /\ \A i, j \in LiveInodes(fs) :
       i # j => OwnedBlocks(fs, i) \cap OwnedBlocks(fs, j) = {}

\* two live files own blocks, one of them two, after a rewrite of a file that
\* owned a block before
C19_Witness ==
  /\ last.op = "write" /\ last.ret > 0 /\ last.pre_nblk > 0
  /\ \E i, j \in LiveInodes(fs) :
       /\ i # j
       /\ fs.inodes[i].num_blocks = 2
       /\ fs.inodes[j].num_blocks = 1

\* what a read of the whole of file n returns: the count and the bytes
FullRead(f, n) ==
  LET r == fs_read(f, n, EmptyBuf, f.inodes[FindFile(f, n)].size)
  IN [ret |-> r.ret, bytes |-> [k \in 0..(r.ret - 1) |-> r.buf[k]]]

\* file n is what it was before the step
Undisturbed(n) ==
  LET i == FindFile(fs, n)
      j == FindFile(fs', n)
  IN /\ j = i
     /\ fs'.inodes[j].size = fs.inodes[i].size
     /\ fs'.inodes[j].num_blocks = fs.inodes[i].num_blocks
     /\ fs'.inodes[j].blocks = fs.inodes[i].blocks
     /\ FullRead(fs', n) = FullRead(fs, n)

\* C20: operations on one file never disturb another. For every create,
\* write (successful or failing at any step) or delete that names A, every
\* other live file B keeps its inode index, size, num_blocks and block list,
\* and a full read of B returns the same bytes before and after.
C20_OtherFilesKept ==
  [][last'.op \in {"create", "write", "delete"} =>
       \A n \in FileNames :
         (n # last'.name /\ Live(fs, n)) => Undisturbed(n)]_vars

\* a write ran out of blocks while another file held data
C20_Witness ==
  /\ PoolExhausted(last) /\ last.ret = -1
  /\ \E i \in LiveInodes(fs) : i # last.pre_ino /\ fs.inodes[i].size > 0

====
